---- MODULE Spec2Model ----
(***************************************************************************)
(* Model of the flight price prediction engine (backend/pipeline.py), its  *)
(* request schema (backend/schemas.py) and the /api/predict handler        *)
(* (backend/main.py).                                                      *)
(*                                                                         *)
(* Conventions.                                                            *)
(*  - A Python Optional / a pandas cell that may be NaN is a sequence of   *)
(*    length <= 1: << >> is None (or NaN), <<x>> is the value x.           *)
(*  - Durations are hours, prices are currency units, both integers; the   *)
(*    floats returned by predict_with_uncertainty are fixed-point numbers  *)
(*    in hundredths (FIX).                                                 *)
(*  - scikit-learn is a library, not code of the repository: a fitted      *)
(*    forest is any member of a bounded family of ensembles, each tree a   *)
(*    deterministic function of the encoded feature row.                   *)
(***************************************************************************)
EXTENDS Integers, Sequences, FiniteSets, TLC

VARIABLES
    \* ---- query model (SpecQ) ----
    csv,          \* Clean_Dataset.csv: << >> when the file is absent, <<rows>> otherwise
    model,        \* MODEL_SINGLETON's fields
    frame,        \* the prepared training frame of the last training run (local df)
    op,           \* the last operation: its name, its input and what it returned
    \* ---- life-cycle model (Spec) ----
    fs,           \* the dataset's and the artifact's files
    clock,        \* time.time() / the file system's clock
    single,       \* MODEL_SINGLETON's fields, as opaque values
    pc,           \* each caller's position in load_or_train_model / train_or_load
    loc,          \* each caller's locals
    hist          \* history: what happened, for stating the claims

qvars == <<csv, model, frame, op>>
cvars == <<fs, clock, single, pc, loc, hist>>
vars  == <<csv, model, frame, op, fs, clock, single, pc, loc, hist>>

\* ------------------------------------------------------------------ bounds
MaxRows == 2      \* rows of the historical dataset

\* ------------------------------------------------------------ Optional
None == << >>
Some(x) == <<x>>
IsNone(o) == o = << >>
Get(o) == o[1]

\* ------------------------------------------------------- vocabularies
ALLOWED_AIRLINES ==
    {"Vistara", "Air_India", "Indigo", "GO_FIRST", "AirAsia", "SpiceJet", "Unknown"}
ALLOWED_CITIES == {"Delhi", "Mumbai", "Bangalore", "Kolkata", "Hyderabad", "Chennai"}
ALLOWED_TIMES ==
    {"Early_Morning", "Morning", "Afternoon", "Evening", "Night", "Late_Night", "Unknown"}
ALLOWED_STOPS == {"zero", "one", "two_or_more"}
ALLOWED_CLASS == {"Economy", "Business"}

STOPS_MAP == [s \in ALLOWED_STOPS |-> CASE s = "zero" -> 0 [] s = "one" -> 1 [] OTHER -> 2]
CLASS_MAP == [c \in ALLOWED_CLASS |-> IF c = "Business" THEN 1 ELSE 0]

CAT_FIELDS == {"airline", "source_city", "departure_time", "arrival_time", "destination_city"}

\* The vocabulary _prepare_training_frame pairs with each categorical column.
Allowed(col) ==
    CASE col = "airline" -> ALLOWED_AIRLINES
      [] col = "source_city" -> ALLOWED_CITIES
      [] col = "departure_time" -> ALLOWED_TIMES
      [] col = "arrival_time" -> ALLOWED_TIMES
      [] col = "destination_city" -> ALLOWED_CITIES

\* --------------------------------------------------- the historical dataset
\* One raw record of Clean_Dataset.csv.  A categorical cell is an Optional
\* string (None: an empty cell), days_left and duration are Optional numbers
\* (None: a cell that is not a number).
RawRow(src, dst, al, dep, arr, st, cl, dl, dur, price) ==
    [source_city |-> src, destination_city |-> dst, airline |-> al,
     departure_time |-> dep, arrival_time |-> arr, stops |-> st, class |-> cl,
     days_left |-> dl, duration |-> dur, price |-> price]

RawRows ==
    { RawRow(Some("Delhi"), Some("Mumbai"), Some("Vistara"), Some("Morning"), Some("Night"),
             "zero", "Economy", Some(10), Some(2), 10),
      RawRow(Some("Delhi"), Some("Mumbai"), Some("Indigo"), Some("Evening"), Some("Night"),
             "one", "Business", Some(0 - 3), Some(6), 90),
      RawRow(Some("Delhi"), Some("Mumbai"), None, Some("Morning"), Some("Unknown"),
             "zero", "Economy", None, None, 40),
      RawRow(Some("Pune"), Some("Delhi"), Some("Lufthansa"), Some("Noon"), Some("Morning"),
             "one", "Economy", Some(5), Some(4), 70),
      RawRow(Some("Mumbai"), Some("Delhi"), Some("Vistara"), Some("Morning"), Some("Morning"),
             "two_or_more", "Economy", Some(1), Some(4), 60) }

RECURSIVE SeqsUpTo(_, _)
SeqsUpTo(S, n) ==
    IF n = 0 THEN { << >> }
    ELSE LET shorter == SeqsUpTo(S, n - 1)
         IN  shorter \cup { Append(q, x) : q \in { r \in shorter : Len(r) = n - 1 }, x \in S }

Datasets == SeqsUpTo(RawRows, MaxRows)

\* ------------------------------------------------- _prepare_training_frame
\* df[col].astype(str): an empty cell becomes the string "nan".
AsStr(cell) == IF IsNone(cell) THEN "nan" ELSE Get(cell)

\* Mutant: the out-of-vocabulary value is kept.
WhereIsin_keep(v, allowed) == v

\* df[col].where(df[col].isin(allowed), "Unknown")
WhereIsin(v, allowed) == IF v \in allowed THEN v ELSE "Unknown"

\* pd.to_numeric(errors="coerce").fillna(0).clip(lower=0).astype(int)
CoerceDaysLeft(cell) ==
    LET filled == IF IsNone(cell) THEN 0 ELSE Get(cell)
    IN  IF filled < 0 THEN 0 ELSE filled

PrepareRow(r) ==
    [source_city      |-> WhereIsin(AsStr(r.source_city), Allowed("source_city")),
     destination_city |-> WhereIsin(AsStr(r.destination_city), Allowed("destination_city")),
     airline          |-> WhereIsin(AsStr(r.airline), Allowed("airline")),
     departure_time   |-> WhereIsin(AsStr(r.departure_time), Allowed("departure_time")),
     arrival_time     |-> WhereIsin(AsStr(r.arrival_time), Allowed("arrival_time")),
     stops            |-> STOPS_MAP[r.stops],
     class            |-> CLASS_MAP[r.class],
     days_left        |-> CoerceDaysLeft(r.days_left),
     duration         |-> r.duration,
     price            |-> r.price]

prepare_training_frame(df) == [i \in DOMAIN df |-> PrepareRow(df[i])]

\* ---------------------------------------------------- _build_route_medians
\* The median of a non-empty sequence of numbers (pandas: the mean of the two
\* middle values for an even count).
Median(vals) ==
    LET s == SortSeq(vals, LAMBDA a, b : a < b)
        n == Len(s)
    IN  IF n % 2 = 1 THEN s[(n + 1) \div 2]
        ELSE (s[n \div 2] + s[n \div 2 + 1]) \div 2

\* The known durations of the rows of df whose route is in routes, in row
\* order (dropna(subset=["duration"]) then groupby).
RECURSIVE KnownDurations(_, _, _)
KnownDurations(df, routes, i) ==
    IF i > Len(df) THEN << >>
    ELSE IF <<df[i].source_city, df[i].destination_city>> \in routes /\ ~IsNone(df[i].duration)
         THEN <<Get(df[i].duration)>> \o KnownDurations(df, routes, i + 1)
         ELSE KnownDurations(df, routes, i + 1)

DEFAULT_GLOBAL_MEDIAN == 2

build_route_medians(df) ==
    LET known == { i \in DOMAIN df : ~IsNone(df[i].duration) }
        keys  == { <<df[i].source_city, df[i].destination_city>> : i \in known }
    IN  [route_to_duration_median |->
            [k \in keys |-> Median(KnownDurations(df, {k}, 1))],
         global_duration_median |->
            IF known # {} THEN Median(KnownDurations(df, keys, 1))
            ELSE DEFAULT_GLOBAL_MEDIAN]

\* ------------------------------------------------ the pipeline (scikit-learn)
NUM_FIELDS == {"duration", "days_left", "stops", "class"}

\* A tree of the forest: a deterministic function of the encoded row, whose
\* value is a mean of training prices and so lies between the least and the
\* greatest of them.
Tree(bias, wdur, wdays, wstops, wclass, wal, wsrc, wdep, warr, wdst) ==
    [bias |-> bias,
     num |-> [duration |-> wdur, days_left |-> wdays, stops |-> wstops, class |-> wclass],
     cat |-> [airline |-> wal, source_city |-> wsrc, departure_time |-> wdep,
              arrival_time |-> warr, destination_city |-> wdst]]

\* The forests RandomForestRegressor.fit may produce.
Forests ==
    { <<Tree(20, 0, 0, 0, 0, 0, 0, 0, 0, 0)>>,
      <<Tree(20, 0, 0, 0, 0, 0, 0, 0, 0, 0), Tree(5, 3, 0 - 1, 4, 30, 0, 0, 0, 0, 0)>>,
      <<Tree(5, 3, 0 - 1, 4, 30, 0, 0, 0, 0, 0), Tree(0 - 10, 0, 0, 0, 0, 2, 1, 3, 0 - 2, 5)>>,
      <<Tree(20, 0, 0, 0, 0, 0, 0, 0, 0, 0), Tree(5, 3, 0 - 1, 4, 30, 0, 0, 0, 0, 0),
        Tree(0 - 10, 0, 0, 0, 0, 2, 1, 3, 0 - 2, 5)>> }

\* The code of a category inside its one-hot block; 0 is the all-zero block
\* OneHotEncoder(handle_unknown="ignore") gives a category it was not fitted on.
CatNames ==
    <<"Vistara", "Air_India", "Indigo", "GO_FIRST", "AirAsia", "SpiceJet", "Unknown",
      "Delhi", "Mumbai", "Bangalore", "Kolkata", "Hyderabad", "Chennai",
      "Early_Morning", "Morning", "Afternoon", "Evening", "Night", "Late_Night">>

CatCode(categories, v) ==
    IF v \in categories /\ \E i \in DOMAIN CatNames : CatNames[i] = v
    THEN CHOOSE i \in DOMAIN CatNames : CatNames[i] = v
    ELSE 0

\* Pipeline(steps=[preprocessor, model]) as constructed, before fit.
NewPipeline ==
    [fitted |-> FALSE, categories |-> [c \in CAT_FIELDS |-> {}], trees |-> << >>,
     ymin |-> 0, ymax |-> 0]

MinOf(S) == CHOOSE x \in S : \A y \in S : x <= y
MaxOf(S) == CHOOSE x \in S : \A y \in S : x >= y

\* What Pipeline.fit(X, y) leaves: the categories seen in each categorical
\* column, and one of the forests.
FittedPipelines(df) ==
    { [fitted |-> TRUE,
       categories |-> [c \in CAT_FIELDS |-> { df[i][c] : i \in DOMAIN df }],
       trees |-> f,
       ymin |-> MinOf({ df[i].price : i \in DOMAIN df }),
       ymax |-> MaxOf({ df[i].price : i \in DOMAIN df })] : f \in Forests }

\* ColumnTransformer.transform of one feature row.
Encode(p, x) ==
    [n \in NUM_FIELDS |-> x[n]] @@ [c \in CAT_FIELDS |-> CatCode(p.categories[c], x[c])]

Clamp(x, lo, hi) == IF x < lo THEN lo ELSE IF x > hi THEN hi ELSE x

\* estimator.predict of one tree of the fitted pipeline p.
TreePredict(p, t, e) ==
    Clamp(t.bias
          + t.num.duration * e.duration + t.num.days_left * e.days_left
          + t.num.stops * e.stops + t.num.class * e.class
          + t.cat.airline * e.airline + t.cat.source_city * e.source_city
          + t.cat.departure_time * e.departure_time + t.cat.arrival_time * e.arrival_time
          + t.cat.destination_city * e.destination_city,
          p.ymin, p.ymax)

\* feature_names_out_: the numeric names, then one name per fitted category.
FeatureNamesOut(p) ==
    [num |-> <<"duration", "days_left", "stops", "class">>, cat |-> p.categories]

\* ----------------------------------------------------------- fixed point
FIX == 100      \* hundredths
Z95 == 196      \* 1.96, in hundredths

RECURSIVE SqrtBetween(_, _, _)
SqrtBetween(x, lo, hi) ==
    IF lo >= hi THEN lo
    ELSE LET mid == (lo + hi + 1) \div 2
         IN  IF mid <= x \div mid THEN SqrtBetween(x, mid, hi) ELSE SqrtBetween(x, lo, mid - 1)

\* The integer square root of x >= 0.
ISqrt(x) == SqrtBetween(x, 0, x)

RECURSIVE SumSeq(_)
SumSeq(s) == IF s = << >> THEN 0 ELSE Head(s) + SumSeq(Tail(s))


\* ------------------------------------------------------- FlightPriceModel
\* FlightPriceModel.__init__
NewModel ==
    [pipeline |-> None, route_medians |-> None, feature_names_out_ |-> None,
     model_path |-> None, model_version |-> None]

Raised(e) == [raised |-> e]
Ok(r) == r.raised = ""

\* Mutant: a duration of 0 is taken as supplied (>= for >).
impute_duration_ge(m, source_city, destination_city, duration) ==
    IF ~IsNone(duration) /\ Get(duration) >= 0
    THEN [raised |-> "", value |-> Get(duration), was_imputed |-> FALSE, imputed_value |-> 0]
    ELSE IF IsNone(m.route_medians) THEN Raised("AssertionError")
    ELSE LET rm  == Get(m.route_medians)
             key == <<source_city, destination_city>>
             imputed == IF key \in DOMAIN rm.route_to_duration_median
                        THEN rm.route_to_duration_median[key]
                        ELSE rm.global_duration_median
         IN  [raised |-> "", value |-> imputed, was_imputed |-> TRUE, imputed_value |-> imputed]

\* Mutant: the assertion comes first, before the supplied duration is returned.
impute_duration_assert_first(m, source_city, destination_city, duration) ==
    IF IsNone(m.route_medians) THEN Raised("AssertionError")
    ELSE IF ~IsNone(duration) /\ Get(duration) > 0
    THEN [raised |-> "", value |-> Get(duration), was_imputed |-> FALSE, imputed_value |-> 0]
    ELSE LET rm  == Get(m.route_medians)
             key == <<source_city, destination_city>>
             imputed == IF key \in DOMAIN rm.route_to_duration_median
                        THEN rm.route_to_duration_median[key]
                        ELSE rm.global_duration_median
         IN  [raised |-> "", value |-> imputed, was_imputed |-> TRUE, imputed_value |-> imputed]

impute_duration(m, source_city, destination_city, duration) ==
    IF ~IsNone(duration) /\ Get(duration) > 0
    THEN [raised |-> "", value |-> Get(duration), was_imputed |-> FALSE, imputed_value |-> 0]
    ELSE IF IsNone(m.route_medians) THEN Raised("AssertionError")
    ELSE LET rm  == Get(m.route_medians)
             key == <<source_city, destination_city>>
             imputed == IF key \in DOMAIN rm.route_to_duration_median
                        THEN rm.route_to_duration_median[key]
                        ELSE rm.global_duration_median
         IN  [raised |-> "", value |-> imputed, was_imputed |-> TRUE, imputed_value |-> imputed]

\* pred, lower and upper are in hundredths.
predict_with_uncertainty(m, features) ==
    IF IsNone(m.pipeline) THEN Raised("AssertionError")
    ELSE IF ~Get(m.pipeline).fitted THEN Raised("NotFittedError")
    ELSE LET p     == Get(m.pipeline)
             e     == Encode(p, features)
             trees == [i \in DOMAIN p.trees |-> TreePredict(p, p.trees[i], e)]
             n     == Len(trees)
             sum   == SumSeq(trees)
             sumsq == SumSeq([i \in DOMAIN trees |-> trees[i] * trees[i]])
             pred  == (FIX * sum) \div n
             std   == ISqrt(FIX * FIX * (n * sumsq - sum * sum)) \div n
             lower == pred - (Z95 * std) \div FIX
             upper == pred + (Z95 * std) \div FIX
         IN  [raised |-> "", pred |-> pred, lower |-> lower, upper |-> upper]

GROUPS ==
    <<"class", "stops", "days_left", "duration", "airline", "source_city",
      "departure_time", "arrival_time", "destination_city">>

TOP_K == 5

\* Mutant: the baseline also neutralises the cabin class.
Baseline_class(m, instance) ==
    [instance EXCEPT !.airline = "Unknown", !.departure_time = "Unknown",
                     !.arrival_time = "Unknown", !.class = 0,
                     !.duration = Get(m.route_medians).global_duration_median]

\* The baseline row of local_contributions.
Baseline(m, instance) ==
    [instance EXCEPT !.airline = "Unknown", !.departure_time = "Unknown",
                     !.arrival_time = "Unknown",
                     !.duration = Get(m.route_medians).global_duration_median]

\* The baseline with one group's value restored to the instance's.
Toggled(base, instance, name) == [base EXCEPT ![name] = instance[name]]

Abs(x) == IF x < 0 THEN 0 - x ELSE x

\* list.sort(key=contribution, reverse=True): stable, descending.
RECURSIVE InsertDesc(_, _)
InsertDesc(x, s) ==
    IF s = << >> THEN <<x>>
    ELSE IF Head(s).contribution >= x.contribution THEN <<Head(s)>> \o InsertDesc(x, Tail(s))
    ELSE <<x>> \o s

\* Mutant: the list is returned in group order.
SortDesc_unsorted(s) == s

RECURSIVE SortDesc(_)
SortDesc(s) ==
    IF s = << >> THEN << >>
    ELSE InsertDesc(s[Len(s)], SortDesc(SubSeq(s, 1, Len(s) - 1)))

TakeTop(s) == SubSeq(s, 1, IF Len(s) < TOP_K THEN Len(s) ELSE TOP_K)

Contribution(name, delta) ==
    [feature |-> name, contribution |-> Abs(delta),
     direction |-> IF delta >= 0 THEN "+" ELSE "-"]

local_contributions(m, instance) ==
    IF IsNone(m.pipeline) THEN Raised("AssertionError")
    ELSE IF IsNone(m.route_medians) THEN Raised("AssertionError")
    ELSE LET base == Baseline(m, instance)
             bp   == predict_with_uncertainty(m, base)
         IN  IF ~Ok(bp) THEN bp
             ELSE LET contribs ==
                          [i \in DOMAIN GROUPS |->
                              Contribution(GROUPS[i],
                                  predict_with_uncertainty(m, Toggled(base, instance, GROUPS[i])).pred
                                  - bp.pred)]
                  IN  [raised |-> "", contribs |-> TakeTop(SortDesc(contribs))]

\* ---------------------------------------------- train_or_load, as one call
\* The query model starts a process that finds no persisted artifact, so a
\* call of train_or_load trains; the load path is modelled in the life-cycle
\* model below.  The outcomes of one call: the singleton's fields when the
\* call ends, the exception it ended with ("" for a normal return) and the
\* prepared frame.
MODEL_PATH == "backend/model.joblib"
TrainTime == 1

train_or_load(m, csvfile) ==
    LET m1 == [m EXCEPT !.model_path = Some(MODEL_PATH)]
    IN  IF IsNone(csvfile)
        THEN { [model |-> m1, raised |-> "FileNotFoundError", trained |-> FALSE, frame |-> << >>] }
        ELSE LET df == prepare_training_frame(Get(csvfile))
                 m2 == [m1 EXCEPT !.route_medians = Some(build_route_medians(df)),
                                  !.pipeline = Some(NewPipeline)]
             IN  IF Len(df) = 0
                 THEN { [model |-> m2, raised |-> "ValueError", trained |-> FALSE, frame |-> df] }
                 ELSE { [model |-> [m2 EXCEPT !.pipeline = Some(p),
                                              !.feature_names_out_ = Some(FeatureNamesOut(p)),
                                              !.model_version = Some(<<"rf", TrainTime>>)],
                         raised |-> r, trained |-> TRUE, frame |-> df] :
                        p \in FittedPipelines(df), r \in {"", "OSError"} }

load_or_train_model(m, csvfile) ==
    IF IsNone(m.pipeline) THEN train_or_load(m, csvfile)
    ELSE { [model |-> m, raised |-> "", trained |-> FALSE, frame |-> << >>] }

\* ------------------------------------------------------------- schemas.py
City == {"Delhi", "Mumbai", "Bangalore", "Kolkata", "Hyderabad", "Chennai"}
TimeBand == {"Early_Morning", "Morning", "Afternoon", "Evening", "Night", "Late_Night", "Unknown"}
Stops == {"zero", "one", "two_or_more"}
CabinClass == {"Economy", "Business"}
Airline == {"Vistara", "Air_India", "Indigo", "GO_FIRST", "AirAsia", "SpiceJet", "Unknown"}

\* PredictRequest's validation; a request that fails it is answered 422.
PredictRequestValid(payload) ==
    /\ payload.source_city \in City
    /\ payload.destination_city \in City
    /\ payload.destination_city # payload.source_city
    /\ payload.class \in CabinClass
    /\ payload.stops \in Stops
    /\ payload.days_left >= 0
    /\ IsNone(payload.duration) \/ Get(payload.duration) > 0
    /\ IsNone(payload.airline) \/ Get(payload.airline) \in Airline
    /\ IsNone(payload.departure_time) \/ Get(payload.departure_time) \in TimeBand
    /\ IsNone(payload.arrival_time) \/ Get(payload.arrival_time) \in TimeBand

\* ---------------------------------------------------------------- main.py
\* data.get(field) or "Unknown"
OrUnknown(o) == IF IsNone(o) \/ Get(o) = "" THEN "Unknown" ELSE Get(o)

\* payload.model_dump().get(cat_field) in (None, "")
Omitted(o) == IsNone(o) \/ Get(o) = ""

\* Mutant: the bound is reported as computed.
Max0_raw(x) == x

\* max(bound, 0.0)
Max0(x) == IF x > 0 THEN x ELSE 0

OPTIONAL_CATS == {"airline", "departure_time", "arrival_time"}

\* Mutant: a field gets an entry whenever its value is "Unknown".
Assumptions_any_unknown(payload, X, was_imputed) ==
    LET fields == (IF was_imputed THEN {"duration"} ELSE {})
                  \cup { c \in OPTIONAL_CATS : X[c] = "Unknown" }
    IN  [f \in fields |->
            IF f = "duration" THEN [imputed |-> TRUE, method |-> "route_median"]
            ELSE [imputed |-> TRUE, method |-> "default_unknown"]]

\* assumptions_used: the fields with an entry, and each entry.
Assumptions(payload, X, was_imputed) ==
    LET fields == (IF was_imputed THEN {"duration"} ELSE {})
                  \cup { c \in OPTIONAL_CATS : X[c] = "Unknown" /\ Omitted(payload[c]) }
    IN  [f \in fields |->
            IF f = "duration" THEN [imputed |-> TRUE, method |-> "route_median"]
            ELSE [imputed |-> TRUE, method |-> "default_unknown"]]

FeatureRow(payload, duration) ==
    [source_city |-> payload.source_city,
     destination_city |-> payload.destination_city,
     class |-> IF payload.class = "Business" THEN 1 ELSE 0,
     stops |-> CASE payload.stops = "zero" -> 0 [] payload.stops = "one" -> 1 [] OTHER -> 2,
     days_left |-> payload.days_left,
     duration |-> duration,
     airline |-> OrUnknown(payload.airline),
     departure_time |-> OrUnknown(payload.departure_time),
     arrival_time |-> OrUnknown(payload.arrival_time)]

Response500(m, e) == [model |-> m, status |-> 500, raised |-> e]

\* The handler's work once load_or_train_model has returned m.
PredictWith(m, payload) ==
    LET imp == impute_duration(m, payload.source_city, payload.destination_city,
                               payload.duration)
    IN  IF ~Ok(imp) THEN Response500(m, imp.raised)
        ELSE LET X   == FeatureRow(payload, imp.value)
                 pwu == predict_with_uncertainty(m, X)
             IN  IF ~Ok(pwu) THEN Response500(m, pwu.raised)
                 ELSE LET lc == local_contributions(m, X)
                      IN  IF ~Ok(lc) THEN Response500(m, lc.raised)
                          ELSE [model |-> m, status |-> 200, raised |-> "",
                                features |-> X,
                                predicted_price |-> pwu.pred,
                                lower_bound |-> Max0(pwu.lower),
                                upper_bound |-> Max0(pwu.upper),
                                top_contributors |-> lc.contribs,
                                assumptions_used |->
                                    Assumptions(payload, X, imp.was_imputed)]

\* POST /api/predict: every way the request can end, with the singleton's
\* fields after it.
predict(m, csvfile, payload) ==
    IF ~PredictRequestValid(payload)
    THEN { [model |-> m, status |-> 422, raised |-> "ValidationError",
             trained |-> FALSE, frame |-> << >>] }
    ELSE { (IF Ok(out) THEN PredictWith(out.model, payload)
            ELSE Response500(out.model, out.raised))
           @@ [trained |-> out.trained, frame |-> out.frame] :
           out \in load_or_train_model(m, csvfile) }

\* ------------------------------------------------------------ query inputs
Routes == { <<"Delhi", "Mumbai">>, <<"Mumbai", "Delhi">>, <<"Pune", "Delhi">>,
            <<"Unknown", "Delhi">>, <<"Delhi", "Delhi">> }
DurationInputs == { None, Some(0 - 1), Some(0), Some(3) }

FeatureRows ==
    { [source_city |-> r[1], destination_city |-> r[2], class |-> cl, stops |-> st,
       days_left |-> 10, duration |-> d, airline |-> al,
       departure_time |-> "Morning", arrival_time |-> "Night"] :
      r \in { <<"Delhi", "Mumbai">>, <<"Pune", "Delhi">> }, cl \in {0, 1}, st \in {0, 2},
      d \in {1, 5}, al \in {"Vistara", "Unknown", "Lufthansa"} }

Payload(src, dst, cl, st, dl, dur, al, dep, arr) ==
    [source_city |-> src, destination_city |-> dst, class |-> cl, stops |-> st,
     days_left |-> dl, duration |-> dur, airline |-> al, departure_time |-> dep,
     arrival_time |-> arr]

Payloads ==
    { Payload(r[1], r[2], "Economy", "zero", 10, dur, al, dep, arr) :
      r \in { <<"Delhi", "Mumbai">>, <<"Mumbai", "Delhi">>, <<"Pune", "Delhi">> },
      dur \in { None, Some(3) },
      al \in { None, Some("Vistara"), Some("Lufthansa") },
      dep \in { None, Some("Morning") },
      arr \in { None, Some("Night") } }
    \cup
    { Payload("Delhi", "Mumbai", "Business", "one", 0, Some(2), Some("Unknown"), Some("Unknown"), None),
      Payload("Delhi", "Mumbai", "Economy", "zero", 10, None, Some(""), None, None),
      Payload("Delhi", "Mumbai", "Economy", "zero", 10, None, None, Some("Noon"), None),
      Payload("Delhi", "Mumbai", "Economy", "zero", 10, Some(0), None, None, None),
      Payload("Delhi", "Mumbai", "Economy", "zero", 0 - 1, None, None, None, None),
      Payload("Delhi", "Delhi", "Economy", "zero", 10, None, None, None, None),
      Payload("Delhi", "Mumbai", "First", "zero", 10, None, None, None, None) }

\* ------------------------------------------------------- the query model
\* ============================================ the life-cycle model (Spec)
\* load_or_train_model and train_or_load statement by statement, for callers
\* that run concurrently (FastAPI runs the sync endpoints in a thread pool) and
\* may call again after an exception.  The dataset's content is identified by
\* its modification time; route statistics and feature names are the values
\* computed from that content.
NCallers == 2     \* concurrent callers
MaxCalls == 2     \* calls of load_or_train_model in one run
MaxClock == 3     \* the latest time a clock reading returns

\* The modification times the files may have when the process starts.
FileTimes == {1, 2}

Callers == 1..NCallers

\* Mutant: the singleton is initialised on every call.
NeedsInit_always(s) == TRUE

\* load_or_train_model: MODEL_SINGLETON.pipeline is None
NeedsInit(s) == IsNone(s.pipeline)

\* Mutant: an artifact exactly as old as the dataset is retrained (> for >=).
LoadDecision_strict(exists, model_mtime, csv_mtime) == exists /\ model_mtime > csv_mtime

\* train_or_load: self.model_path.exists() and model_mtime >= csv_mtime
LoadDecision(exists, model_mtime, csv_mtime) == exists /\ model_mtime >= csv_mtime

\* The files f hold an artifact that is at least as new as the dataset (an
\* absent dataset counts as modification time 0).
FreshArtifact(f) == f.art_exists /\ (f.csv_exists => f.art_mtime >= f.csv_mtime)

\* st_mtime if the file exists, else 0
MtimeOr0(exists, mtime) == IF exists THEN mtime ELSE 0

\* The bundle joblib.dump writes.
Bundle(s) ==
    [pipeline |-> Get(s.pipeline), route_medians |-> Get(s.route_medians),
     feature_names_out |-> Get(s.feature_names_out_),
     model_version |-> s.model_version]

\* An artifact an earlier process left: a fitted pipeline and what was
\* computed from the dataset of that time; hasver is whether the bundle has
\* the model_version key.
OldBundle(mtime, hasver) ==
    [pipeline |-> [id |-> <<"old", 0>>, fitted |-> TRUE],
     route_medians |-> <<"route_medians", 0>>,
     feature_names_out |-> <<"feature_names", 0>>,
     model_version |-> IF hasver THEN Some(<<"rf", mtime>>) ELSE None]

NoLocals == [csv_mtime |-> 0, model_mtime |-> 0, loaded |-> None, df |-> None, fitting |-> None]

InitC ==
    /\ \E ce \in BOOLEAN, cm \in FileTimes, ae \in BOOLEAN, am \in FileTimes,
          hv \in BOOLEAN :
        /\ ~ce => cm = 1
        /\ ~ae => (am = 1 /\ hv)
        /\ fs = [csv_exists |-> ce, csv_mtime |-> cm, art_exists |-> ae, art_mtime |-> am,
                 art |-> IF ae THEN Some(OldBundle(am, hv)) ELSE None]
    /\ clock = MaxOf(FileTimes)
    /\ single = NewModel
    /\ pc = [t \in Callers |-> "idle"]
    /\ loc = [t \in Callers |-> NoLocals]
    /\ hist = [calls |-> 0, init_done |-> FALSE,
               late |-> [t \in Callers |-> FALSE],
               path |-> [t \in Callers |-> "none"],
               seen |-> [t \in Callers |-> None],
               out  |-> [t \in Callers |-> "none"],
               prev |-> [t \in Callers |-> None],
               pair |-> [t \in Callers |-> None]]

Goto(t, l) == pc' = [pc EXCEPT ![t] = l]

\* train_or_load has completed on m: every field it sets is set.
Trained(m) ==
    /\ ~IsNone(m.pipeline) /\ Get(m.pipeline).fitted
    /\ ~IsNone(m.route_medians)
    /\ ~IsNone(m.feature_names_out_)
    /\ ~IsNone(m.model_version)

\* Caller t changed the singleton to s: what another caller was last returned
\* no longer counts as the call just before its next one, and the singleton
\* has been initialised once every field is set.
Changed(h, t, s) ==
    [h EXCEPT !.prev = [u \in Callers |-> IF u = t THEN h.prev[u] ELSE None],
              !.init_done = @ \/ Trained(s)]

\* The call ends with an exception; the actions that raise leave hist alone.
Raise(t) ==
    /\ Goto(t, "idle")
    /\ loc' = [loc EXCEPT ![t] = NoLocals]

\* A caller enters load_or_train_model.
Call(t) ==
    /\ pc[t] = "idle"
    /\ hist.calls < MaxCalls
    /\ Goto(t, "l239")
    /\ hist' = [hist EXCEPT !.calls = @ + 1, !.late[t] = hist.init_done,
                            !.path[t] = "none", !.seen[t] = None, !.pair[t] = None,
                            !.out[t] = "none"]
    /\ UNCHANGED <<fs, clock, single, loc>>
    /\ UNCHANGED qvars

\* line 239: if MODEL_SINGLETON.pipeline is None
L239(t) ==
    /\ pc[t] = "l239"
    /\ IF NeedsInit(single) THEN Goto(t, "t119") ELSE Goto(t, "l242")
    /\ UNCHANGED <<fs, clock, single, loc, hist>>
    /\ UNCHANGED qvars

\* lines 119-121: model_path, csv_mtime, model_mtime
T119(t) ==
    /\ pc[t] = "t119"
    /\ single' = [single EXCEPT !.model_path = Some(MODEL_PATH)]
    /\ loc' = [loc EXCEPT ![t].csv_mtime = MtimeOr0(fs.csv_exists, fs.csv_mtime),
                          ![t].model_mtime = MtimeOr0(fs.art_exists, fs.art_mtime)]
    /\ hist' = [hist EXCEPT !.seen[t] = Some(FreshArtifact(fs))]
    /\ Goto(t, "t123")
    /\ UNCHANGED <<fs, clock>>
    /\ UNCHANGED qvars

\* line 123: the train-or-load decision
T123(t) ==
    /\ pc[t] = "t123"
    /\ IF LoadDecision(fs.art_exists, loc[t].model_mtime, loc[t].csv_mtime)
       THEN Goto(t, "t124") /\ hist' = [hist EXCEPT !.path[t] = "load"]
       ELSE Goto(t, "t132") /\ hist' = [hist EXCEPT !.path[t] = "train"]
    /\ UNCHANGED <<fs, clock, single, loc>>
    /\ UNCHANGED qvars

\* line 124: joblib.load, which may raise
T124(t) ==
    /\ pc[t] = "t124"
    /\ \/ /\ loc' = [loc EXCEPT ![t].loaded = fs.art]
          /\ Goto(t, "t125")
       \/ Raise(t)
    /\ UNCHANGED <<fs, clock, single, hist>>
    /\ UNCHANGED qvars

\* line 125: self.pipeline = loaded["pipeline"]
T125(t) ==
    /\ pc[t] = "t125"
    /\ single' = [single EXCEPT !.pipeline =
                      Some([Get(loc[t].loaded).pipeline EXCEPT !.id = <<"loaded", t>>])]
    /\ hist' = Changed(hist, t, single')
    /\ Goto(t, "t126")
    /\ UNCHANGED <<fs, clock, loc>>
    /\ UNCHANGED qvars

\* line 126: self.route_medians = loaded["route_medians"]
T126(t) ==
    /\ pc[t] = "t126"
    /\ single' = [single EXCEPT !.route_medians = Some(Get(loc[t].loaded).route_medians)]
    /\ hist' = Changed(hist, t, single')
    /\ Goto(t, "t127")
    /\ UNCHANGED <<fs, clock, loc>>
    /\ UNCHANGED qvars

\* line 127: self.feature_names_out_ = loaded["feature_names_out"]
T127(t) ==
    /\ pc[t] = "t127"
    /\ single' = [single EXCEPT !.feature_names_out_ =
                      Some(Get(loc[t].loaded).feature_names_out)]
    /\ hist' = Changed(hist, t, single')
    /\ Goto(t, "t128")
    /\ UNCHANGED <<fs, clock, loc>>
    /\ UNCHANGED qvars

\* lines 128-129: self.model_version = loaded.get("model_version", f"loaded-{mtime}")
T128(t) ==
    /\ pc[t] = "t128"
    /\ single' = [single EXCEPT !.model_version =
                      IF IsNone(Get(loc[t].loaded).model_version)
                      THEN Some(<<"loaded", loc[t].model_mtime>>)
                      ELSE Get(loc[t].loaded).model_version]
    /\ hist' = Changed(hist, t, single')
    /\ Goto(t, "l242")
    /\ UNCHANGED <<fs, clock, loc>>
    /\ UNCHANGED qvars

\* lines 132-133: read_csv (raises when the dataset is absent) and the
\* prepared frame
T132(t) ==
    /\ pc[t] = "t132"
    /\ IF fs.csv_exists
       THEN /\ loc' = [loc EXCEPT ![t].df = Some(fs.csv_mtime)]
            /\ Goto(t, "t134")
       ELSE Raise(t)
    /\ UNCHANGED <<fs, clock, single, hist>>
    /\ UNCHANGED qvars

\* line 134: self.route_medians = self._build_route_medians(df)
T134(t) ==
    /\ pc[t] = "t134"
    /\ single' = [single EXCEPT !.route_medians = Some(<<"route_medians", Get(loc[t].df)>>)]
    /\ hist' = Changed(hist, t, single')
    /\ Goto(t, "t141")
    /\ UNCHANGED <<fs, clock, loc>>
    /\ UNCHANGED qvars

\* lines 139-141: self.pipeline = Pipeline(...), not fitted yet
T141(t) ==
    /\ pc[t] = "t141"
    /\ single' = [single EXCEPT !.pipeline = Some([id |-> <<"new", t>>, fitted |-> FALSE])]
    /\ hist' = Changed(hist, t, single')
    /\ Goto(t, "t142")
    /\ UNCHANGED <<fs, clock, loc>>
    /\ UNCHANGED qvars

\* line 142: self.pipeline.fit(X, y) starts on the object self.pipeline holds
T142(t) ==
    /\ pc[t] = "t142"
    /\ loc' = [loc EXCEPT ![t].fitting = Some(Get(single.pipeline).id)]
    /\ Goto(t, "fit")
    /\ UNCHANGED <<fs, clock, single, hist>>
    /\ UNCHANGED qvars

\* line 142: fit ends: the object it ran on is fitted, or fit raises
Fit(t) ==
    /\ pc[t] = "fit"
    /\ \/ /\ IF Get(single.pipeline).id = Get(loc[t].fitting)
             THEN /\ single' = [single EXCEPT !.pipeline = Some([Get(@) EXCEPT !.fitted = TRUE])]
                  /\ hist' = Changed(hist, t, single')
             ELSE UNCHANGED <<single, hist>>
          /\ Goto(t, "t145")
          /\ UNCHANGED loc
       \/ /\ Raise(t)
          /\ UNCHANGED <<single, hist>>
    /\ UNCHANGED <<fs, clock>>
    /\ UNCHANGED qvars

\* lines 145-150: the encoder of self.pipeline (an error if that pipeline is
\* not fitted) and self.feature_names_out_
T145(t) ==
    /\ pc[t] = "t145"
    /\ IF Get(single.pipeline).fitted
       THEN /\ single' = [single EXCEPT !.feature_names_out_ =
                              Some(<<"feature_names", Get(loc[t].df)>>)]
            /\ hist' = Changed(hist, t, single')
            /\ Goto(t, "t151")
            /\ UNCHANGED loc
       ELSE /\ Raise(t)
            /\ UNCHANGED <<single, hist>>
    /\ UNCHANGED <<fs, clock>>
    /\ UNCHANGED qvars

\* line 151: self.model_version = f"rf-{int(time.time())}"; the clock has
\* not gone back since it was last read
T151(t) ==
    /\ pc[t] = "t151"
    /\ \E now \in clock..MaxClock :
        /\ clock' = now
        /\ single' = [single EXCEPT !.model_version = Some(<<"rf", now>>)]
    /\ hist' = Changed(hist, t, single')
    /\ Goto(t, "t155")
    /\ UNCHANGED <<fs, loc>>
    /\ UNCHANGED qvars

\* lines 154-160: joblib.dump of the bundle, which may raise
T155(t) ==
    /\ pc[t] = "t155"
    /\ \/ /\ \E now \in clock..MaxClock :
              /\ clock' = now
              /\ fs' = [fs EXCEPT !.art_exists = TRUE, !.art_mtime = now,
                                  !.art = Some(Bundle(single))]
          /\ Goto(t, "l242")
          /\ UNCHANGED loc
       \/ /\ Raise(t)
          /\ UNCHANGED <<fs, clock>>
    /\ UNCHANGED <<single, hist>>
    /\ UNCHANGED qvars

\* line 242: return MODEL_SINGLETON
L242(t) ==
    /\ pc[t] = "l242"
    /\ Goto(t, "idle")
    /\ loc' = [loc EXCEPT ![t] = NoLocals]
    /\ hist' = [hist EXCEPT !.out[t] = IF Trained(single) THEN "initialised" ELSE "partial",
                            !.prev[t] = Some(single.model_version),
                            !.pair[t] = IF IsNone(hist.prev[t]) THEN None
                                        ELSE Some(<<Get(hist.prev[t]), single.model_version>>)]
    /\ UNCHANGED <<fs, clock, single>>
    /\ UNCHANGED qvars

Next ==
    \/ \E t \in Callers : Call(t)
    \/ \E t \in Callers : L239(t)
    \/ \E t \in Callers : T119(t)
    \/ \E t \in Callers : T123(t)
    \/ \E t \in Callers : T124(t)
    \/ \E t \in Callers : T125(t)
    \/ \E t \in Callers : T126(t)
    \/ \E t \in Callers : T127(t)
    \/ \E t \in Callers : T128(t)
    \/ \E t \in Callers : T132(t)
    \/ \E t \in Callers : T134(t)
    \/ \E t \in Callers : T141(t)
    \/ \E t \in Callers : T142(t)
    \/ \E t \in Callers : Fit(t)
    \/ \E t \in Callers : T145(t)
    \/ \E t \in Callers : T151(t)
    \/ \E t \in Callers : T155(t)
    \/ \E t \in Callers : L242(t)

InitIdleQ ==
    /\ csv = None
    /\ model = NewModel
    /\ frame = << >>
    /\ op = [name |-> "idle"]

Init == InitC /\ InitIdleQ

Spec == Init /\ [][Next]_vars

\* ============================================== claims, life-cycle model
IN_LOAD == {"t124", "t125", "t126", "t127", "t128"}
IN_TRAIN == {"t132", "t134", "t141", "t142", "fit", "t145", "t151", "t155"}

\* Caller t takes a step of its call.
Moves(t) == pc[t] # "idle" /\ pc'[t] # pc[t]

\* C4: two calls of load_or_train_model in succession return the same version
\* tag, and a call made once the model has been initialised never enters
\* train_or_load and changes neither the singleton nor the artifact.
C4_Idempotent ==
    /\ [](\A t \in Callers :
            /\ (hist.late[t] /\ pc[t] # "idle") => pc[t] \in {"l239", "l242"}
            /\ ~IsNone(hist.pair[t]) => Get(hist.pair[t])[1] = Get(hist.pair[t])[2])
    /\ [][\A t \in Callers :
            (hist.late[t] /\ Moves(t)) => (single' = single /\ fs' = fs)]_vars

\* A caller's call made after the model was initialised has returned the
\* version tag its previous call returned.
C4_Witness ==
    \E t \in Callers :
        /\ hist.late[t] /\ pc[t] = "idle"
        /\ ~IsNone(hist.pair[t])
        /\ ~IsNone(Get(hist.pair[t])[2])
        /\ hist.out[t] = "initialised"

\* When caller t read the modification times, the artifact existed and was
\* at least as new as the dataset.
SawFreshArtifact(t) == Get(hist.seen[t])

\* C5: train_or_load takes the load path exactly when the artifact exists and
\* its modification time is >= the dataset's; the load path neither trains nor
\* writes the artifact; a call that trains ends by persisting an artifact that
\* holds the pipeline, route statistics, feature names and version tag then
\* in memory.
C5_TrainOrLoad ==
    /\ [](\A t \in Callers :
            /\ hist.path[t] = "load" => SawFreshArtifact(t)
            /\ hist.path[t] = "train" => ~SawFreshArtifact(t)
            /\ pc[t] \in IN_LOAD => hist.path[t] = "load"
            /\ pc[t] \in IN_TRAIN => hist.path[t] = "train"
            /\ (hist.path[t] = "train" /\ pc[t] = "l242") => fs.art_exists)
    /\ [][\A t \in Callers :
            /\ (hist.path[t] = "load" /\ Moves(t)) => fs' = fs
            /\ (pc[t] = "t155" /\ pc'[t] = "l242") =>
                   /\ fs'.art_exists
                   /\ fs'.art = Some([pipeline |-> Get(single'.pipeline),
                                      route_medians |-> Get(single'.route_medians),
                                      feature_names_out |-> Get(single'.feature_names_out_),
                                      model_version |-> single'.model_version])]_vars

\* One caller has returned from the training path, with the artifact on disk
\* holding what is in memory, and another from the load path.
C5_Witness ==
    \E a, b \in Callers :
        /\ hist.path[a] = "train" /\ hist.out[a] # "none"
        /\ hist.path[b] = "load" /\ hist.out[b] # "none"
        /\ pc[a] = "idle" /\ pc[b] = "idle"

\* C10: whenever load_or_train_model returns the model to a caller, the
\* model is fully initialised: the pipeline is fitted and the route
\* statistics, the feature names and the version tag are set.
C10_ReturnedInitialised ==
    \A t \in Callers : hist.out[t] # "partial"

\* ================================================ the query model (SpecQ)
InitIdleC ==
    /\ fs = [csv_exists |-> FALSE, csv_mtime |-> 1, art_exists |-> FALSE, art_mtime |-> 1,
             art |-> None]
    /\ clock = MaxOf(FileTimes)
    /\ single = NewModel
    /\ pc = [t \in Callers |-> "idle"]
    /\ loc = [t \in Callers |-> NoLocals]
    /\ hist = << >>

InitQ ==
    /\ csv \in { None } \cup { Some(d) : d \in Datasets }
    /\ model = NewModel
    /\ frame = << >>
    /\ op = [name |-> "idle"]
    /\ InitIdleC

\* One caller at a time makes a call and takes its result: op holds the call
\* in progress and what it returned, Idle between two calls.
Idle == [name |-> "idle"]

\* @app.on_event("startup"), or any other caller of load_or_train_model().
Startup ==
    /\ op = Idle
    /\ \E out \in load_or_train_model(model, csv) :
        /\ model' = out.model
        /\ frame' = IF out.trained THEN out.frame ELSE frame
        /\ op' = [name |-> "load_or_train_model", raised |-> out.raised]
    /\ UNCHANGED csv
    /\ UNCHANGED cvars

\* MODEL_SINGLETON.impute_duration(...), whatever state the singleton is in.
CallImputeDuration ==
    /\ op = Idle
    /\ \E r \in Routes, d \in DurationInputs :
        op' = [name |-> "impute_duration", source_city |-> r[1],
               destination_city |-> r[2], duration |-> d,
               ret |-> impute_duration(model, r[1], r[2], d)]
    /\ UNCHANGED <<csv, model, frame>>
    /\ UNCHANGED cvars

CallPredictWithUncertainty ==
    /\ op = Idle
    /\ \E x \in FeatureRows :
        op' = [name |-> "predict_with_uncertainty", features |-> x,
               ret |-> predict_with_uncertainty(model, x)]
    /\ UNCHANGED <<csv, model, frame>>
    /\ UNCHANGED cvars

CallLocalContributions ==
    /\ op = Idle
    /\ \E x \in FeatureRows :
        op' = [name |-> "local_contributions", instance |-> x,
               ret |-> local_contributions(model, x)]
    /\ UNCHANGED <<csv, model, frame>>
    /\ UNCHANGED cvars

\* POST /api/predict
ApiPredict ==
    /\ op = Idle
    /\ \E payload \in Payloads :
        \E resp \in predict(model, csv, payload) :
            /\ model' = resp.model
            /\ frame' = IF resp.trained THEN resp.frame ELSE frame
            /\ op' = [name |-> "predict", payload |-> payload, ret |-> resp]
    /\ UNCHANGED csv
    /\ UNCHANGED cvars

\* The caller has its result (or its exception).
Return ==
    /\ op # Idle
    /\ op' = Idle
    /\ UNCHANGED <<csv, model, frame>>
    /\ UNCHANGED cvars

NextQ ==
    \/ Startup
    \/ CallImputeDuration
    \/ CallPredictWithUncertainty
    \/ CallLocalContributions
    \/ ApiPredict
    \/ Return

SpecQ == InitQ /\ [][NextQ]_vars

\* =================================================== claims, query model
\* The route occurs in the prepared training frame.
Observed(fr, key) ==
    \E i \in DOMAIN fr : <<fr[i].source_city, fr[i].destination_city>> = key

\* The route occurs in the prepared training frame with a known duration.
ObservedKnown(fr, key) ==
    \E i \in DOMAIN fr :
        <<fr[i].source_city, fr[i].destination_city>> = key /\ ~IsNone(fr[i].duration)

Supplied(d) == ~IsNone(d) /\ Get(d) > 0

\* C1, as stated: on a trained model impute_duration returns a duration > 0
\* unchanged with wasImputed=false; otherwise wasImputed=true and the value
\* is the route's median if the pair was observed at training time, else the
\* global median.
C1_AsStated ==
    (op.name = "impute_duration" /\ Trained(model)) =>
        LET key == <<op.source_city, op.destination_city>>
            rm  == Get(model.route_medians)
        IN  /\ Ok(op.ret)
            /\ IF Supplied(op.duration)
               THEN op.ret.value = Get(op.duration) /\ op.ret.was_imputed = FALSE
               ELSE /\ op.ret.was_imputed = TRUE
                    /\ IF Observed(frame, key)
                       THEN /\ key \in DOMAIN rm.route_to_duration_median
                            /\ op.ret.value = rm.route_to_duration_median[key]
                       ELSE op.ret.value = rm.global_duration_median

\* C1, amended: as stated, but the route's median is returned only when the
\* pair was observed at training time with at least one known duration; a
\* pair observed only in records whose duration is missing gets the global
\* median.
C1_ImputeDuration ==
    (op.name = "impute_duration" /\ Trained(model)) =>
        LET key == <<op.source_city, op.destination_city>>
            rm  == Get(model.route_medians)
        IN  /\ Ok(op.ret)
            /\ IF Supplied(op.duration)
               THEN op.ret.value = Get(op.duration) /\ op.ret.was_imputed = FALSE
               ELSE /\ op.ret.was_imputed = TRUE
                    /\ op.ret.imputed_value = op.ret.value
                    /\ IF ObservedKnown(frame, key)
                       THEN /\ key \in DOMAIN rm.route_to_duration_median
                            /\ op.ret.value = rm.route_to_duration_median[key]
                       ELSE op.ret.value = rm.global_duration_median

\* A duration was imputed from a route median that differs from the global one.
C1_Witness ==
    /\ op.name = "impute_duration" /\ Trained(model)
    /\ ~Supplied(op.duration)
    /\ ObservedKnown(frame, <<op.source_city, op.destination_city>>)
    /\ op.ret.was_imputed
    /\ op.ret.value # Get(model.route_medians).global_duration_median

\* C2, as stated: predict_with_uncertainty returns lower <= point <= upper
\* with both bounds clamped to be >= 0.
C2_AsStated ==
    (op.name = "predict_with_uncertainty" /\ Ok(op.ret)) =>
        /\ op.ret.lower <= op.ret.pred /\ op.ret.pred <= op.ret.upper
        /\ op.ret.lower >= 0 /\ op.ret.upper >= 0

\* C2, amended: predict_with_uncertainty returns lower <= point <= upper and
\* does not clamp; the bounds /api/predict reports are max(lower, 0) and
\* max(upper, 0), so both are >= 0 and lower_bound <= upper_bound.
C2_Bounds ==
    /\ (op.name = "predict_with_uncertainty" /\ Ok(op.ret)) =>
           (op.ret.lower <= op.ret.pred /\ op.ret.pred <= op.ret.upper)
    /\ (op.name = "predict" /\ op.ret.status = 200) =>
           /\ op.ret.lower_bound >= 0 /\ op.ret.upper_bound >= 0
           /\ op.ret.lower_bound <= op.ret.upper_bound
           /\ op.ret.upper_bound >= op.ret.predicted_price

\* /api/predict reported a lower bound of 0 for a raw lower bound below 0.
C2_Witness ==
    /\ op.name = "predict" /\ op.ret.status = 200
    /\ predict_with_uncertainty(model, op.ret.features).lower < 0
    /\ op.ret.lower_bound = 0
    /\ op.ret.upper_bound > op.ret.predicted_price

\* C3: local_contributions returns at most 5 entries, each magnitude >= the
\* next one's, every magnitude non-negative, every direction "+" or "-".
C3_TopContributions ==
    (op.name = "local_contributions" /\ Ok(op.ret)) =>
        LET c == op.ret.contribs
        IN  /\ Len(c) <= 5
            /\ \A i \in 1..(Len(c) - 1) : c[i].contribution >= c[i + 1].contribution
            /\ \A i \in DOMAIN c : c[i].contribution >= 0 /\ c[i].direction \in {"+", "-"}

\* Five entries were returned, with distinct magnitudes and both directions.
C3_Witness ==
    /\ op.name = "local_contributions" /\ Ok(op.ret)
    /\ Len(op.ret.contribs) = 5
    /\ op.ret.contribs[1].contribution > op.ret.contribs[2].contribution
    /\ op.ret.contribs[2].contribution > 0
    /\ \E i \in DOMAIN op.ret.contribs : op.ret.contribs[i].direction = "-"
    /\ \E i \in DOMAIN op.ret.contribs : op.ret.contribs[i].direction = "+"

\* C6: a successful /api/predict response has a "duration" entry, with method
\* route_median, exactly when the duration was omitted, and an entry with
\* method default_unknown for exactly the omitted ones of airline,
\* departure_time and arrival_time.
C6_Assumptions ==
    (op.name = "predict" /\ op.ret.status = 200) =>
        LET a == op.ret.assumptions_used
        IN  /\ ("duration" \in DOMAIN a) <=> IsNone(op.payload.duration)
            /\ "duration" \in DOMAIN a => a["duration"].method = "route_median"
            /\ \A c \in OPTIONAL_CATS :
                /\ (c \in DOMAIN a) <=> IsNone(op.payload[c])
                /\ c \in DOMAIN a => a[c].method = "default_unknown"
            /\ DOMAIN a \subseteq {"duration"} \cup OPTIONAL_CATS

\* The request Delhi -> Mumbai, Economy, zero stops, 10 days left, duration
\* and airline omitted, answered with both entries.
C6_Witness ==
    /\ op.name = "predict" /\ op.ret.status = 200
    /\ op.payload.source_city = "Delhi" /\ op.payload.destination_city = "Mumbai"
    /\ op.payload.class = "Economy" /\ op.payload.stops = "zero"
    /\ op.payload.days_left = 10
    /\ IsNone(op.payload.duration) /\ IsNone(op.payload.airline)
    /\ ~IsNone(op.payload.departure_time)
    /\ {"duration", "airline"} \subseteq DOMAIN op.ret.assumptions_used
    /\ "departure_time" \notin DOMAIN op.ret.assumptions_used

QUERIES == {"impute_duration", "predict_with_uncertainty", "local_contributions"}

\* C7, as stated: each of impute_duration, predict_with_uncertainty and
\* local_contributions, called on a model whose train_or_load has not
\* completed, fails with an assertion error for every input.
C7_AsStated ==
    (op.name \in QUERIES /\ ~Trained(model)) => op.ret.raised = "AssertionError"

\* C7, amended: a query fails with an assertion error exactly when a field it
\* asserts on is still None: predict_with_uncertainty when the pipeline is
\* None, local_contributions when the pipeline or the route statistics are
\* None, impute_duration when the route statistics are None and the duration
\* is absent or not > 0.  impute_duration with a duration > 0 returns
\* (duration, false, 0) on any model, trained or not.
C7_UntrainedQueries ==
    /\ op.name = "impute_duration" =>
           /\ (op.ret.raised = "AssertionError")
                  <=> (IsNone(model.route_medians) /\ ~Supplied(op.duration))
           /\ Supplied(op.duration) =>
                  /\ Ok(op.ret) /\ op.ret.value = Get(op.duration)
                  /\ op.ret.was_imputed = FALSE /\ op.ret.imputed_value = 0
    /\ op.name = "predict_with_uncertainty" =>
           ((op.ret.raised = "AssertionError") <=> IsNone(model.pipeline))
    /\ op.name = "local_contributions" =>
           ((op.ret.raised = "AssertionError")
                <=> (IsNone(model.pipeline) \/ IsNone(model.route_medians)))

\* impute_duration returned the supplied duration on a freshly constructed
\* model.
C7_Witness ==
    /\ model = NewModel
    /\ op.name = "impute_duration" /\ Supplied(op.duration)
    /\ Ok(op.ret) /\ op.ret.value = Get(op.duration)

\* The raw value of a categorical field of a request ("" when omitted).
RawCat(payload, c) ==
    IF c \in OPTIONAL_CATS THEN (IF IsNone(payload[c]) THEN "" ELSE Get(payload[c]))
    ELSE payload[c]

\* The request is valid in everything but the vocabulary of its categorical
\* fields.
OtherFieldsValid(payload) ==
    /\ payload.class \in CabinClass
    /\ payload.stops \in Stops
    /\ payload.days_left >= 0
    /\ IsNone(payload.duration) \/ Get(payload.duration) > 0
    /\ payload.source_city # payload.destination_city

Normalized(raw, c) == IF raw \in Allowed(c) THEN raw ELSE "Unknown"

\* Every categorical column of the prepared training frame holds the raw
\* value if it is in the column's vocabulary and "Unknown" otherwise.
TrainingNormalized ==
    (frame # << >>) =>
        /\ ~IsNone(csv) /\ Len(frame) = Len(Get(csv))
        /\ \A i \in DOMAIN frame : \A c \in CAT_FIELDS :
               frame[i][c] = LET cell == Get(csv)[i][c]
                                 raw  == IF IsNone(cell) THEN "nan" ELSE Get(cell)
                             IN  IF raw \in Allowed(c) THEN raw ELSE "Unknown"

\* C8, as stated: at training time and at inference time, for each of the
\* five categorical fields, a value in the vocabulary is kept and every other
\* value is normalised to "Unknown", without an error.
C8_AsStated ==
    /\ TrainingNormalized
    /\ (op.name = "predict" /\ OtherFieldsValid(op.payload) /\ op.ret.status # 500) =>
           /\ op.ret.status = 200
           /\ \A c \in CAT_FIELDS :
                  op.ret.features[c] = Normalized(RawCat(op.payload, c), c)

\* C8, amended: at training time as stated.  At inference time /api/predict
\* keeps a supplied value that is in the vocabulary, takes "Unknown" for an
\* omitted airline, departure_time or arrival_time, and answers a request
\* that carries an out-of-vocabulary value in any of the five fields with a
\* validation error (422): it does not normalise it.
C8_Normalisation ==
    /\ TrainingNormalized
    /\ (op.name = "predict" /\ OtherFieldsValid(op.payload) /\ op.ret.status # 500) =>
           IF \A c \in CAT_FIELDS :
                  \/ RawCat(op.payload, c) \in Allowed(c)
                  \/ c \in OPTIONAL_CATS /\ IsNone(op.payload[c])
           THEN /\ op.ret.status = 200
                /\ \A c \in CAT_FIELDS :
                       op.ret.features[c] =
                           IF c \in OPTIONAL_CATS /\ IsNone(op.payload[c]) THEN "Unknown"
                           ELSE RawCat(op.payload, c)
           ELSE op.ret.status = 422

\* Training normalised an out-of-vocabulary airline and city to "Unknown",
\* and a later request with an out-of-vocabulary airline was answered 422.
C8_Witness ==
    /\ \E i \in DOMAIN frame :
           /\ frame[i].airline = "Unknown" /\ Get(csv)[i].airline = Some("Lufthansa")
           /\ frame[i].source_city = "Unknown" /\ frame[i].destination_city = "Delhi"
    /\ op.name = "predict" /\ OtherFieldsValid(op.payload)
    /\ op.payload.airline = Some("Lufthansa") /\ op.payload.source_city = "Delhi"
    /\ op.ret.status = 422

UNTOGGLED == {"class", "stops", "days_left", "source_city", "destination_city"}

====
